---- MODULE Spec2Model ----
(***************************************************************************)
(* Model of QuerySts.go (StrictMTATest): one run of main() -- MX lookup,   *)
(* one STARTTLS probe per resolved host, the _mta-sts TXT lookup, the      *)
(* HTTPS fetch of the policy and the six validation checks.                *)
(*                                                                         *)
(* Go strings are modelled as sequences of one-character strings, so that  *)
(* strings.HasPrefix, strings.Split, strings.TrimSpace, strings.Index and  *)
(* slicing are computed as the library computes them.  A Go run-time panic *)
(* (index or slice bound out of range) ends the process with status 2.     *)
(***************************************************************************)
EXTENDS Integers, Sequences, FiniteSets, TLC

(***************************************************************************)
(* Bounds of the model.                                                    *)
(***************************************************************************)
MaxRows == 2      \* lines in a fetched policy text

MaxHosts == 2     \* MX records returned by the resolver

(***************************************************************************)
(* Literals of the program.                                                *)
(***************************************************************************)
KeyVersion == <<"v", "e", "r", "s", "i", "o", "n">>

KeyMode == <<"m", "o", "d", "e">>

KeyMaxAge == <<"m", "a", "x", "_", "a", "g", "e">>

KeyMx == <<"m", "x">>

STSv1 == <<"S", "T", "S", "v", "1">>

ModeReport == <<"r", "e", "p", "o", "r", "t">>

ModeEnforce == <<"e", "n", "f", "o", "r", "c", "e">>

ModeNone == <<"n", "o", "n", "e">>

StsTxtPrefix == <<"v", "=", "S", "T", "S", "v", "1", ";", " ">>

(***************************************************************************)
(* Inputs: what the command line, the resolver and the web server can      *)
(* hand to the program.                                                    *)
(***************************************************************************)
Domains == { <<>>, <<"e", "x", "a", "m", "p", "l", "e", ".", "c", "o", "m">> }

\* Lines a policy body is made of: well-formed lines, reserved keys without
\* ':', a value with a second ':', an unknown key with and without ':'.
PolicyLines ==
    { <<"v", "e", "r", "s", "i", "o", "n", ":", " ", "S", "T", "S", "v", "1">>,
      <<"v", "e", "r", "s", "i", "o", "n">>,
      <<"m", "o", "d", "e", ":", " ", "n", "o", "n", "e">>,
      <<"m", "o", "d", "e", ":", " ", "a", ":", "b">>,
      <<"m", "a", "x", "_", "a", "g", "e", ":", " ", "1">>,
      <<"m", "x", ":", " ", ".", "e", "x", "a", "m", "p", "l", "e", ".", "c", "o", "m">>,
      <<"m", "x", ":", " ", "m", "x", "1", ".", "e", "x", "a", "m", "p", "l", "e", ".", "c", "o", "m">>,
      <<"m", "x">>,
      <<"f", "o", "o">>,
      <<"f", "o", "o", ":", " ", "b", "a", "r">> }

\* Host names the resolver returns in MX records: fully qualified with the
\* trailing root dot, without it, and a single-label host.
MxHosts ==
    { <<"m", "x", "1", ".", "e", "x", "a", "m", "p", "l", "e", ".", "c", "o", "m", ".">>,
      <<"a", ".", "m", "a", "i", "l", ".", "e", "x", "a", "m", "p", "l", "e", ".", "c", "o", "m">>,
      <<"l", "o", "c", "a", "l", "h", "o", "s", "t", ".">> }

\* TXT record sets found at _mta-sts.<domain>.
TxtAnswers ==
    { <<>>,
      << <<"v", "=", "s", "p", "f", "1">> >>,
      << <<"v", "=", "s", "p", "f", "1">>,
         <<"v", "=", "S", "T", "S", "v", "1", ";", " ", "i", "d", "=", "1">> >> }

SeqsUpTo(S, n) == UNION { [1..k -> S] : k \in 0..n }

RECURSIVE JoinLines(_)
JoinLines(ls) ==
    IF Len(ls) = 0 THEN <<>>
    ELSE IF Len(ls) = 1 THEN ls[1]
    ELSE ls[1] \o <<"\n">> \o JoinLines(Tail(ls))

\* Bodies the web server can return.
PolicyTexts == { JoinLines(ls) : ls \in SeqsUpTo(PolicyLines, MaxRows) }

MxAnswers == SeqsUpTo(MxHosts, MaxHosts)

(***************************************************************************)
(* Package strings.                                                        *)
(***************************************************************************)
HasPrefix(s, prefix) ==
    Len(prefix) <= Len(s) /\ SubSeq(s, 1, Len(prefix)) = prefix

HasSuffix(s, suffix) ==
    Len(suffix) <= Len(s) /\ SubSeq(s, Len(s) - Len(suffix) + 1, Len(s)) = suffix

\* strings.Index for a one-character separator: 0-based position of the
\* first occurrence, -1 when there is none.
RECURSIVE IndexFrom(_, _, _)
IndexFrom(s, c, k) ==
    IF k > Len(s) THEN -1
    ELSE IF s[k] = c THEN k - 1
    ELSE IndexFrom(s, c, k + 1)

Index(s, c) == IndexFrom(s, c, 1)

\* strings.Split for a one-character separator: always at least one field.
RECURSIVE Split(_, _)
Split(s, c) ==
    LET k == Index(s, c)
    IN  IF k = -1 THEN << s >>
        ELSE << SubSeq(s, 1, k) >> \o Split(SubSeq(s, k + 2, Len(s)), c)

IsSpace(ch) == ch \in {" ", "\t", "\n", "\r"}

RECURSIVE TrimLeft(_)
TrimLeft(s) ==
    IF Len(s) > 0 /\ IsSpace(s[1]) THEN TrimLeft(Tail(s)) ELSE s

RECURSIVE TrimRight(_)
TrimRight(s) ==
    IF Len(s) > 0 /\ IsSpace(s[Len(s)]) THEN TrimRight(SubSeq(s, 1, Len(s) - 1)) ELSE s

TrimSpace(s) == TrimRight(TrimLeft(s))

(***************************************************************************)
(* Helpers of QuerySts.go.                                                 *)
(***************************************************************************)
trimSuffix(s, suffix) ==
    IF HasSuffix(s, suffix) THEN SubSeq(s, 1, Len(s) - Len(suffix)) ELSE s

normalizeDomain(d) ==
    IF HasSuffix(d, <<".">>) THEN trimSuffix(d, <<".">>) ELSE d

RECURSIVE hasKey(_, _)
hasKey(rows, key) ==
    IF rows = <<>> THEN FALSE
    ELSE IF HasPrefix(Head(rows), key) THEN TRUE
    ELSE hasKey(Tail(rows), key)

\* fields[1] of a line: the text between the first and the second ':'.
\* Indexing a one-field split result panics.
FieldOne(line) ==
    LET fields == Split(line, ":")
    IN  IF Len(fields) < 2 THEN [panic |-> TRUE, val |-> <<>>]
        ELSE [panic |-> FALSE, val |-> TrimSpace(fields[2])]

RECURSIVE valueForKey(_, _)
valueForKey(rows, key) ==
    IF rows = <<>> THEN [panic |-> FALSE, val |-> <<>>]
    ELSE IF HasPrefix(Head(rows), key) THEN FieldOne(Head(rows))
    ELSE valueForKey(Tail(rows), key)

\* results starts as make([]string, 1, 4): one empty string.
RECURSIVE valuesForKeyFrom(_, _, _)
valuesForKeyFrom(rows, key, results) ==
    IF rows = <<>> THEN [panic |-> FALSE, val |-> results]
    ELSE IF HasPrefix(Head(rows), key)
         THEN LET f == FieldOne(Head(rows))
              IN  IF f.panic THEN [panic |-> TRUE, val |-> results]
                  ELSE valuesForKeyFrom(Tail(rows), key, Append(results, f.val))
    ELSE valuesForKeyFrom(Tail(rows), key, results)

valuesForKey(rows, key) == valuesForKeyFrom(rows, key, << <<>> >>)

RECURSIVE allKeysFrom(_, _)
allKeysFrom(rows, keys) ==
    IF rows = <<>> THEN keys
    ELSE LET key == TrimSpace(Split(Head(rows), ":")[1])
         IN  allKeysFrom(Tail(rows), IF key # <<>> THEN Append(keys, key) ELSE keys)

allKeys(rows) == allKeysFrom(rows, << <<>> >>)

\* "true", "false", or "panic" when mxHost[i:] is taken with i = -1.
RECURSIVE mxHasMatch(_, _)
mxHasMatch(declaredMXs, mxHost) ==
    IF declaredMXs = <<>> THEN "false"
    ELSE LET mx == Head(declaredMXs)
         IN  IF HasPrefix(mx, <<".">>)
             THEN LET i == Index(mxHost, ".")
                  IN  IF i < 0 THEN "panic"
                      ELSE IF SubSeq(mxHost, i + 1, Len(mxHost)) = mx THEN "true"
                      ELSE mxHasMatch(Tail(declaredMXs), mxHost)
             ELSE IF mx = mxHost THEN "true"
             ELSE mxHasMatch(Tail(declaredMXs), mxHost)

RECURSIVE normalizeAll(_)
normalizeAll(hosts) ==
    IF hosts = <<>> THEN <<>>
    ELSE << normalizeDomain(Head(hosts)) >> \o normalizeAll(Tail(hosts))

\* records starts as make([]string, 1, 4): one empty string.
mxRecordsOf(answer) == << <<>> >> \o normalizeAll(answer)

RECURSIVE stsRecordOf(_)
stsRecordOf(txt) ==
    IF txt = <<>> THEN <<>>
    ELSE IF HasPrefix(Head(txt), StsTxtPrefix) THEN Head(txt)
    ELSE stsRecordOf(Tail(txt))

(***************************************************************************)
(* Findings printed by the validation.                                     *)
(***************************************************************************)
MissingVersion == << "missing version", <<>> >>

BadVersion == << "version must equal STSv1", <<>> >>

BadMode(m) == << "invalid mode", m >>

MissingMaxAge == << "missing max_age", <<>> >>

UnknownKey(k) == << "unknown key", k >>

UndefinedMx(h) == << "undefined MX record", h >>

\* The loop over allKeys in main.
RECURSIVE unknownKeyFindings(_)
unknownKeyFindings(ks) ==
    IF ks = <<>> THEN <<>>
    ELSE LET key == Head(ks)
         IN  (IF key # <<>> /\ key # KeyVersion /\ key # KeyMode
                 /\ key # KeyMaxAge /\ key # KeyMx
              THEN << UnknownKey(key) >> ELSE <<>>)
             \o unknownKeyFindings(Tail(ks))

\* The loop over mxRecords in main: the findings printed and the calls of
\* mxHasMatch made until the loop ends or a call panics.
RECURSIVE mxCheckFrom(_, _, _)
mxCheckFrom(records, declared, acc) ==
    IF records = <<>> THEN acc
    ELSE LET record == Head(records)
         IN  IF Len(record) > 0
             THEN LET r == mxHasMatch(declared, record)
                      calls == Append(acc.calls, [host |-> record, res |-> r])
                  IN  IF r = "panic"
                      THEN [panic |-> TRUE, found |-> acc.found, calls |-> calls]
                      ELSE mxCheckFrom(Tail(records), declared,
                             [panic |-> FALSE,
                              found |-> IF r = "false"
                                        THEN Append(acc.found, UndefinedMx(record))
                                        ELSE acc.found,
                              calls |-> calls])
             ELSE mxCheckFrom(Tail(records), declared, acc)

mxCheck(records, declared) ==
    mxCheckFrom(records, declared, [panic |-> FALSE, found |-> <<>>, calls |-> <<>>])

(***************************************************************************)
(* State of one run.                                                       *)
(***************************************************************************)
VARIABLES
    pc,             \* the statement of main the run is at
    exitCode,       \* -1 while the process runs, its exit status afterwards
    panicAt,        \* the function a run-time panic was raised in, or "none"
    domain,         \* *domain
    mxRecords,      \* result of mxRecords(*domain)
    i,              \* position of the probe loop in mxRecords
    probed,         \* hosts handed to tlsTest so far, in call order
    tlsErrors,      \* probes that logged a connection or handshake error
    stsRecord,      \* result of stsDNSCheck
    policyResource, \* body returned by queryHTTPSRecord
    policyRows,     \* strings.Split(policyResource, "\n")
    mode,           \* valueForKey(policyRows, "mode")
    keys,           \* allKeys(policyRows)
    mxs,            \* valuesForKey(policyRows, "mx")
    calls,          \* calls of mxHasMatch made by the cross-check
    out             \* findings printed so far, in print order

vars == << pc, exitCode, panicAt, domain, mxRecords, i, probed, tlsErrors,
           stsRecord, policyResource, policyRows, mode, keys, mxs, calls, out >>

netVars == << mxRecords, i, probed, tlsErrors, stsRecord >>

policyVars == << policyResource, policyRows >>

checkVars == << mode, keys, mxs, calls, out >>

Running == exitCode = -1

Init ==
    /\ pc = "flags"
    /\ exitCode = -1
    /\ panicAt = "none"
    /\ domain \in Domains
    /\ mxRecords = <<>>
    /\ i = 1
    /\ probed = <<>>
    /\ tlsErrors = 0
    /\ stsRecord = <<>>
    /\ policyResource = <<>>
    /\ policyRows = <<>>
    /\ mode = <<>>
    /\ keys = <<>>
    /\ mxs = <<>>
    /\ calls = <<>>
    /\ out = <<>>

\* os.Exit(code) and log.Fatal (code 1): the run stops where it is.
Exit(code) ==
    /\ exitCode' = code
    /\ pc' = pc

\* A run-time panic in function f: the Go runtime exits with status 2.
Panic(f) ==
    /\ Exit(2)
    /\ panicAt' = f

(***************************************************************************)
(* main, up to the policy fetch.                                           *)
(***************************************************************************)
\* As DomainMissing, but with the usage-error status of package flag.
DomainMissing_exit2 ==
    /\ Running /\ pc = "flags"
    /\ domain = <<>>
    /\ Exit(2)
    /\ UNCHANGED << panicAt, domain, netVars, policyVars, checkVars >>

DomainMissing ==
    /\ Running /\ pc = "flags"
    /\ domain = <<>>
    /\ Exit(1)
    /\ UNCHANGED << panicAt, domain, netVars, policyVars, checkVars >>

DomainGiven ==
    /\ Running /\ pc = "flags"
    /\ domain # <<>>
    /\ pc' = "lookupMX"
    /\ UNCHANGED << exitCode, panicAt, domain, netVars, policyVars, checkVars >>

\* net.LookupMX returned an error: log.Fatal.
MxLookupFails ==
    /\ Running /\ pc = "lookupMX"
    /\ Exit(1)
    /\ UNCHANGED << panicAt, domain, netVars, policyVars, checkVars >>

MxLookupAnswers ==
    /\ Running /\ pc = "lookupMX"
    /\ \E answer \in MxAnswers : mxRecords' = mxRecordsOf(answer)
    /\ i' = 1
    /\ pc' = "probe"
    /\ UNCHANGED << exitCode, panicAt, domain, probed, tlsErrors, stsRecord,
                    policyVars, checkVars >>

\* The probe loop skips a record of length 0.
ProbeSkip ==
    /\ Running /\ pc = "probe"
    /\ i <= Len(mxRecords) /\ Len(mxRecords[i]) = 0
    /\ i' = i + 1
    /\ UNCHANGED << pc, exitCode, panicAt, domain, mxRecords, probed, tlsErrors,
                    stsRecord, policyVars, checkVars >>

\* As TlsDialFails, but the error is reported with log.Fatal.
TlsDialFails_fatal ==
    /\ Running /\ pc = "probe"
    /\ i <= Len(mxRecords) /\ Len(mxRecords[i]) > 0
    /\ probed' = Append(probed, mxRecords[i])
    /\ tlsErrors' = tlsErrors + 1
    /\ Exit(1)
    /\ UNCHANGED << panicAt, domain, mxRecords, i, stsRecord, policyVars, checkVars >>

\* tlsTest: smtp.Dial failed; the error is logged and tlsTest returns.
TlsDialFails ==
    /\ Running /\ pc = "probe"
    /\ i <= Len(mxRecords) /\ Len(mxRecords[i]) > 0
    /\ probed' = Append(probed, mxRecords[i])
    /\ tlsErrors' = tlsErrors + 1
    /\ i' = i + 1
    /\ UNCHANGED << pc, exitCode, panicAt, domain, mxRecords, stsRecord,
                    policyVars, checkVars >>

\* tlsTest: smtp.Dial succeeded; StartTLS is next.
TlsDialConnects ==
    /\ Running /\ pc = "probe"
    /\ i <= Len(mxRecords) /\ Len(mxRecords[i]) > 0
    /\ probed' = Append(probed, mxRecords[i])
    /\ pc' = "starttls"
    /\ UNCHANGED << exitCode, panicAt, domain, mxRecords, i, tlsErrors, stsRecord,
                    policyVars, checkVars >>

\* tlsTest: StartTLS failed; the error is logged and tlsTest returns.
StartTlsFails ==
    /\ Running /\ pc = "starttls"
    /\ tlsErrors' = tlsErrors + 1
    /\ i' = i + 1
    /\ pc' = "probe"
    /\ UNCHANGED << exitCode, panicAt, domain, mxRecords, probed, stsRecord,
                    policyVars, checkVars >>

StartTlsSucceeds ==
    /\ Running /\ pc = "starttls"
    /\ i' = i + 1
    /\ pc' = "probe"
    /\ UNCHANGED << exitCode, panicAt, domain, mxRecords, probed, tlsErrors,
                    stsRecord, policyVars, checkVars >>

ProbeLoopEnds ==
    /\ Running /\ pc = "probe"
    /\ i > Len(mxRecords)
    /\ pc' = "lookupTXT"
    /\ UNCHANGED << exitCode, panicAt, domain, netVars, policyVars, checkVars >>

\* stsDNSCheck: a lookup error is printed and "" is returned.
TxtLookupFails ==
    /\ Running /\ pc = "lookupTXT"
    /\ stsRecord' = <<>>
    /\ pc' = "fetch"
    /\ UNCHANGED << exitCode, panicAt, domain, mxRecords, i, probed, tlsErrors,
                    policyVars, checkVars >>

TxtLookupAnswers ==
    /\ Running /\ pc = "lookupTXT"
    /\ \E txt \in TxtAnswers : stsRecord' = stsRecordOf(txt)
    /\ pc' = "fetch"
    /\ UNCHANGED << exitCode, panicAt, domain, mxRecords, i, probed, tlsErrors,
                    policyVars, checkVars >>

\* queryHTTPSRecord: http.Get or ioutil.ReadAll returned an error: log.Fatal.
FetchFails ==
    /\ Running /\ pc = "fetch"
    /\ Exit(1)
    /\ UNCHANGED << panicAt, domain, netVars, policyVars, checkVars >>

FetchReturns ==
    /\ Running /\ pc = "fetch"
    /\ \E body \in PolicyTexts :
          /\ policyResource' = body
          /\ policyRows' = Split(body, "\n")
    /\ pc' = "checkVersionKey"
    /\ UNCHANGED << exitCode, panicAt, domain, netVars, checkVars >>

(***************************************************************************)
(* main, the validation of the policy rows: six checks in program order.   *)
(***************************************************************************)
CheckVersionKey ==
    /\ Running /\ pc = "checkVersionKey"
    /\ out' = IF ~hasKey(policyRows, KeyVersion) THEN Append(out, MissingVersion) ELSE out
    /\ pc' = "checkVersionValue"
    /\ UNCHANGED << exitCode, panicAt, domain, netVars, policyVars, mode, keys, mxs, calls >>

CheckVersionValue ==
    /\ Running /\ pc = "checkVersionValue"
    /\ LET v == valueForKey(policyRows, KeyVersion)
       IN  IF v.panic
           THEN /\ Panic("valueForKey")
                /\ UNCHANGED out
           ELSE /\ out' = IF v.val # STSv1 THEN Append(out, BadVersion) ELSE out
                /\ pc' = "checkMode"
                /\ UNCHANGED << exitCode, panicAt >>
    /\ UNCHANGED << domain, netVars, policyVars, mode, keys, mxs, calls >>

CheckMode ==
    /\ Running /\ pc = "checkMode"
    /\ LET v == valueForKey(policyRows, KeyMode)
       IN  IF v.panic
           THEN /\ Panic("valueForKey")
                /\ UNCHANGED << mode, out >>
           ELSE /\ mode' = v.val
                /\ out' = IF v.val # ModeReport /\ v.val # ModeEnforce /\ v.val # ModeNone
                          THEN Append(out, BadMode(v.val)) ELSE out
                /\ pc' = "checkMaxAge"
                /\ UNCHANGED << exitCode, panicAt >>
    /\ UNCHANGED << domain, netVars, policyVars, keys, mxs, calls >>

CheckMaxAge ==
    /\ Running /\ pc = "checkMaxAge"
    /\ out' = IF ~hasKey(policyRows, KeyMaxAge) THEN Append(out, MissingMaxAge) ELSE out
    /\ pc' = "checkKeys"
    /\ UNCHANGED << exitCode, panicAt, domain, netVars, policyVars, mode, keys, mxs, calls >>

CheckKeys ==
    /\ Running /\ pc = "checkKeys"
    /\ keys' = allKeys(policyRows)
    /\ out' = out \o unknownKeyFindings(allKeys(policyRows))
    /\ pc' = "checkMx"
    /\ UNCHANGED << exitCode, panicAt, domain, netVars, policyVars, mode, mxs, calls >>

\* The cross-check against the resolved hosts; main returns after it.
CheckMx ==
    /\ Running /\ pc = "checkMx"
    /\ LET v == valuesForKey(policyRows, KeyMx)
           r == mxCheck(mxRecords, v.val)
       IN  IF v.panic
           THEN /\ Panic("valuesForKey")
                /\ UNCHANGED << mxs, calls, out >>
           ELSE /\ mxs' = v.val
                /\ calls' = r.calls
                /\ out' = out \o r.found
                /\ IF r.panic
                   THEN Panic("mxHasMatch")
                   ELSE /\ pc' = "done"
                        /\ exitCode' = 0
                        /\ UNCHANGED panicAt
    /\ UNCHANGED << domain, netVars, policyVars, mode, keys >>

Next ==
    \/ DomainMissing
    \/ DomainGiven
    \/ MxLookupFails
    \/ MxLookupAnswers
    \/ ProbeSkip
    \/ TlsDialFails
    \/ TlsDialConnects
    \/ StartTlsFails
    \/ StartTlsSucceeds
    \/ ProbeLoopEnds
    \/ TxtLookupFails
    \/ TxtLookupAnswers
    \/ FetchFails
    \/ FetchReturns
    \/ CheckVersionKey
    \/ CheckVersionValue
    \/ CheckMode
    \/ CheckMaxAge
    \/ CheckKeys
    \/ CheckMx

Spec == Init /\ [][Next]_vars

(***************************************************************************)
(* Vocabulary of the properties.                                           *)
(***************************************************************************)
ValidationLabels ==
    { "checkVersionKey", "checkVersionValue", "checkMode", "checkMaxAge",
      "checkKeys", "checkMx", "done" }

IsHost(h) == Len(h) > 0

NonEmpty(hs) == SelectSeq(hs, IsHost)

Kinds(fs) == [k \in 1..Len(fs) |-> fs[k][1]]

IsUnknownKey(f) == f[1] = "unknown key"

IsUndefinedMx(f) == f[1] = "undefined MX record"

Occurs(f, fs) == \E k \in 1..Len(fs) : fs[k] = f

NoLineStartsWith(rows, key) == \A k \in 1..Len(rows) : ~HasPrefix(rows[k], key)

\* Position of a finding's check in the order of the six checks.
CheckOf(kind) ==
    CASE kind = "missing version" -> 1
      [] kind = "version must equal STSv1" -> 2
      [] kind = "invalid mode" -> 3
      [] kind = "missing max_age" -> 4
      [] kind = "unknown key" -> 5
      [] kind = "undefined MX record" -> 6

\* The value of a line as the specification states it: the whole remainder
\* after the first ':', trimmed.
RemainderAfterColon(line) ==
    TrimSpace(SubSeq(line, Index(line, ":") + 2, Len(line)))

HasColon(line) == Index(line, ":") >= 0

\* The values of all lines that start with key, in document order.
RECURSIVE StatedValues(_, _)
StatedValues(rows, key) ==
    IF rows = <<>> THEN <<>>
    ELSE (IF HasPrefix(Head(rows), key) /\ HasColon(Head(rows))
          THEN << RemainderAfterColon(Head(rows)) >> ELSE <<>>)
         \o StatedValues(Tail(rows), key)

\* The match rule as the specification states it.
StatedMatch(declared, host) ==
    \E k \in 1..Len(declared) :
        LET p == declared[k]
        IN  IF HasPrefix(p, <<".">>)
            THEN /\ Index(host, ".") >= 0
                 /\ SubSeq(host, Index(host, ".") + 1, Len(host)) = p
            ELSE p = host

RECURSIVE StatedUndefined(_, _)
StatedUndefined(records, declared) ==
    IF records = <<>> THEN <<>>
    ELSE (IF Len(Head(records)) > 0 /\ ~StatedMatch(declared, Head(records))
          THEN << UndefinedMx(Head(records)) >> ELSE <<>>)
         \o StatedUndefined(Tail(records), declared)

\* Unknown-key findings as the specification states them: only lines with a
\* ':' have a key.
RECURSIVE StatedUnknown(_)
StatedUnknown(rows) ==
    IF rows = <<>> THEN <<>>
    ELSE LET line == Head(rows)
             key == TrimSpace(SubSeq(line, 1, Index(line, ":")))
         IN  (IF HasColon(line) /\ key # <<>>
                 /\ key \notin {KeyVersion, KeyMode, KeyMaxAge, KeyMx}
              THEN << UnknownKey(key) >> ELSE <<>>)
             \o StatedUnknown(Tail(rows))

RECURSIVE FirstWithPrefix(_, _)
FirstWithPrefix(rows, key) ==
    IF rows = <<>> THEN <<>>
    ELSE IF HasPrefix(Head(rows), key) THEN << Head(rows) >>
    ELSE FirstWithPrefix(Tail(rows), key)

(***************************************************************************)
(* Properties.                                                             *)
(***************************************************************************)

\* C1: for every policy text, also one with a reserved key on a line without
\* ':', validation completes without a crash: valueForKey and valuesForKey
\* never index past the end of the split result.
C1_NoParserPanic ==
    panicAt \notin {"valueForKey", "valuesForKey"}

\* C2: when no line starts with "version", validation prints the
\* missing-version finding and not the "version must equal 'STSv1'" finding.
C2_OnlyMissingVersion ==
    (pc \in ValidationLabels \ {"checkVersionKey", "checkVersionValue"}
       /\ NoLineStartsWith(policyRows, KeyVersion))
    => (Occurs(MissingVersion, out) /\ ~Occurs(BadVersion, out))

\* C3: every call of mxHasMatch, also for a host without '.', returns true
\* exactly when some declared pattern matches by the stated rule (suffix from
\* the host's first '.' for a pattern starting with '.', equality otherwise).
C3_MatchRule ==
    \A k \in 1..Len(calls) :
        calls[k].res = (IF StatedMatch(mxs, calls[k].host) THEN "true" ELSE "false")

\* C4: for every resolved host list and policy text, a run that began the
\* validation prints exactly one "undefined MX record" finding per non-empty
\* resolved host that no declared mx pattern matches, in resolved order.
C4_UndefinedMxExact ==
    (~Running /\ pc \in ValidationLabels)
    => SelectSeq(out, IsUndefinedMx)
         = StatedUndefined(mxRecords, StatedValues(policyRows, KeyMx))

\* C5: validation never short-circuits: a run that began the validation ends
\* only after the sixth check, and findings appear in the order of the checks.
C5_AllChecksInOrder ==
    /\ (~Running /\ pc \in ValidationLabels) => pc = "done"
    /\ \A k \in 1..(Len(out) - 1) : CheckOf(out[k][1]) <= CheckOf(out[k + 1][1])

\* C6: the unknown-key findings are exactly one per line that has a ':' and
\* a non-empty, non-reserved key, in document order; a line without ':'
\* yields none.
C6_UnknownKeysExact ==
    pc \in {"checkMx", "done"}
    => SelectSeq(out, IsUnknownKey) = StatedUnknown(policyRows)

\* C7: every non-empty resolved host is probed exactly once, in resolved
\* order, whatever earlier probes did; the TXT lookup and the fetch come after
\* the last probe and the validation after the fetch returned text; no probe
\* failure and no absent TXT record ends the run, which always has a next
\* step until the fetch.
C7_ProbesThenFetchThenValidation ==
    /\ pc \in {"flags", "lookupMX"} => probed = <<>>
    /\ pc = "probe" => probed = NonEmpty(SubSeq(mxRecords, 1, i - 1))
    /\ pc = "starttls" => probed = NonEmpty(SubSeq(mxRecords, 1, i))
    /\ pc \in {"lookupTXT", "fetch"} \cup ValidationLabels => probed = NonEmpty(mxRecords)
    /\ tlsErrors <= Len(probed)
    /\ pc \in ValidationLabels => /\ policyRows # <<>>
                                  /\ policyRows = Split(policyResource, "\n")
    /\ pc \notin ValidationLabels => policyRows = <<>> /\ out = <<>>
    /\ ~Running => pc \notin {"probe", "starttls", "lookupTXT"}
    /\ (Running /\ pc \in {"probe", "starttls", "lookupTXT", "fetch"})
       => ENABLED (ProbeSkip \/ TlsDialFails \/ TlsDialConnects \/ StartTlsFails
                   \/ StartTlsSucceeds \/ ProbeLoopEnds \/ TxtLookupFails
                   \/ TxtLookupAnswers \/ FetchReturns)

\* Two hosts probed, both probes failed, no TXT record, validation reached.
C7_Witness ==
    /\ pc = "checkVersionKey"
    /\ Len(probed) = 2
    /\ tlsErrors = 2
    /\ stsRecord = <<>>

\* C8 as stated: status 1 exactly when -domain is empty, status 0 otherwise.
C8_OnlyEmptyDomainFails ==
    ~Running => /\ exitCode = 1 <=> domain = <<>>
                /\ domain # <<>> => exitCode = 0

\* C8, amended: status 1 when -domain is empty, when the MX lookup fails or
\* when the policy fetch fails; status 2 when the validation panics; status 0
\* when the validation completes, whatever the number of findings.
C8_ExitStatus ==
    ~Running =>
        /\ exitCode \in {0, 1, 2}
        /\ exitCode = 1 <=> \/ pc = "flags" /\ domain = <<>>
                            \/ pc = "lookupMX"
                            \/ pc = "fetch"
        /\ exitCode = 2 <=> pc \in {"checkVersionValue", "checkMode", "checkMx"}
        /\ exitCode = 0 <=> pc = "done"

\* A run that printed findings and ended with status 0.
C8_Witness ==
    /\ pc = "done"
    /\ exitCode = 0
    /\ Len(out) >= 3

\* C9: the value valueForKey extracts from a line that starts with the key
\* and has a ':' is the whole trimmed remainder after the first ':'.
C9_WholeRemainder ==
    LET first == FirstWithPrefix(policyRows, KeyMode)
    IN  (pc \in {"checkMaxAge", "checkKeys", "checkMx", "done"}
           /\ first # <<>> /\ HasColon(first[1]))
        => mode = RemainderAfterColon(first[1])

\* C10: valuesForKey returns exactly the values of the lines that start with
\* the key, in document order with duplicates kept, and nothing else.
C10_ExactlyTheValues ==
    (pc = "done" \/ panicAt = "mxHasMatch")
    => mxs = StatedValues(policyRows, KeyMx)

====
